---- MODULE Spec2Model ----
(***************************************************************************)
(* query-range: the occurrence iterator QueryRangeItr (matches mode and    *)
(* inverted "gaps" mode), the range utilities it is built on, and the      *)
(* transform / transform_all reassembly functions.                         *)
(*                                                                         *)
(* Strings are sequences of one-character strings; a &str slice            *)
(* content[a..b] is SubSeq(content, a + 1, b).  Offsets are 0-based as in  *)
(* the source.  Option<Range<usize>> is a record with a "some" flag.       *)
(***************************************************************************)
EXTENDS Integers, Sequences, FiniteSets, TLC

\* ---------------------------------------------------------------- bounds
\* longest content passed to an iterator or a transform
MaxLen == 4
\* longest query
MaxQLen == 2
\* next() calls made on each hand-driven iterator
MaxCalls == MaxLen + 3
\* capacity of a Vec<(String, usize)>: pushing beyond it is an allocation
\* failure, which aborts the process
VecCap == MaxLen + 2

\* usize::MAX, as far as TLC's integers reach
UsizeMax == 2147483647

\* u8::MAX: shift_range and shift_range_in_content are generic over
\* T: PrimInt and are called here with T = u8
U8Max == 255

\* how far from 0 and from u8::MAX the offsets passed to them lie
Margin == 2

Offsets == (0..Margin) \cup ((U8Max - Margin)..U8Max)

\* the characters of contents and queries
Alphabet == {"a", "b"}

RECURSIVE StringsUpTo(_)
StringsUpTo(n) ==
    IF n = 0 THEN {<<>>}
    ELSE LET shorter == StringsUpTo(n - 1)
         IN  shorter \cup {Append(s, ch) : s \in shorter, ch \in Alphabet}

Contents == StringsUpTo(MaxLen)
Queries == StringsUpTo(MaxQLen)

\* ------------------------------------------------------------ utility.rs
\* str::len
len(content) == Len(content)

\* &content[from..to]
Slice(content, from, to) == SubSeq(content, from + 1, to)

\* &content[from..]
SliceFrom(content, from) == SubSeq(content, from + 1, Len(content))

\* Option<Range<usize>>
NoRange == [some |-> FALSE, start |-> 0, end |-> 0]
SomeRange(s, e) == [some |-> TRUE, start |-> s, end |-> e]

\* Option<usize>
NoNumber == [some |-> FALSE, value |-> 0]
SomeNumber(n) == [some |-> TRUE, value |-> n]

\* str::find: byte offset of the first occurrence of the pattern, an empty
\* pattern being found at offset 0
find(content, query) ==
    LET starts == {i \in 0..(Len(content) - Len(query)) :
                      Slice(content, i, i + Len(query)) = query}
    IN  IF starts = {} THEN NoNumber
        ELSE SomeNumber(CHOOSE i \in starts : \A j \in starts : i <= j)

get_range(query, content) ==
    LET possible_start == find(content, query)
    IN  IF possible_start.some
        THEN LET start == possible_start.value
                 end == start + len(query)
             IN  IF end > len(content) THEN NoRange ELSE SomeRange(start, end)
        ELSE NoRange

\* Shift<T>
Up(amount) == [dir |-> "Up", amount |-> amount]
Down(amount) == [dir |-> "Down", amount |-> amount]

\* T::checked_add / T::checked_sub for an unsigned T with maximum max
checked_add(a, b, max) == IF a + b > max THEN NoNumber ELSE SomeNumber(a + b)
checked_sub(a, b) == IF a - b < 0 THEN NoNumber ELSE SomeNumber(a - b)

\* wrapping_add / wrapping_sub in place of checked_add / checked_sub
apply_to_range_wrapping(shift, range, max) ==
    LET wrapping_add(a, b) == IF a + b > max THEN (a + b) - max - 1 ELSE a + b
        wrapping_sub(a, b) == IF a - b < 0 THEN (a - b) + max + 1 ELSE a - b
    IN  IF shift.dir = "Up"
        THEN SomeRange(wrapping_add(range.start, shift.amount),
                       wrapping_add(range.end, shift.amount))
        ELSE SomeRange(wrapping_sub(range.start, shift.amount),
                       wrapping_sub(range.end, shift.amount))

apply_to_range(shift, range, max) ==
    LET new_start == IF shift.dir = "Up"
                     THEN checked_add(range.start, shift.amount, max)
                     ELSE checked_sub(range.start, shift.amount)
        new_end == IF shift.dir = "Up"
                   THEN checked_add(range.end, shift.amount, max)
                   ELSE checked_sub(range.end, shift.amount)
    IN  IF new_start.some /\ new_end.some
        THEN SomeRange(new_start.value, new_end.value)
        ELSE NoRange

shift_range(range, shift, max) == apply_to_range(shift, range, max)

\* is_within refusing a range that ends exactly where the content ends
is_within_exclusive(content, range) ==
    IF range.end >= 0
    THEN IF range.end >= len(content) THEN FALSE ELSE TRUE
    ELSE FALSE

\* range.end.to_usize() fails for a negative end; otherwise only the end is
\* compared with the length
is_within(content, range) ==
    IF range.end >= 0
    THEN IF range.end > len(content) THEN FALSE ELSE TRUE
    ELSE FALSE

shift_range_in_content(range, shift, content, max) ==
    LET new_range == shift_range(range, shift, max)
    IN  IF new_range.some
        THEN IF is_within(content, new_range) THEN new_range ELSE NoRange
        ELSE NoRange

Min(a, b) == IF a <= b THEN a ELSE b

\* ----------------------------------------------- query_range_iterator.rs
new_base(query, content, inverted) ==
    [inverted |-> inverted,
     query |-> query,
     current_content |-> content,
     full_content |-> content,
     removed_count |-> 0]

new(query, content) == new_base(query, content, FALSE)

new_inverted(query, content) == new_base(query, content, TRUE)

\* next_standard resuming one byte after the start of the match instead of
\* at its end
next_standard_overlapping(self) ==
    LET current_content == self.current_content
        possible_range == get_range(self.query, current_content)
    IN  IF possible_range.some /\ is_within(current_content, possible_range)
        THEN LET next_start == possible_range.start + 1
                 shifted == shift_range_in_content(possible_range,
                                Up(self.removed_count), self.full_content, UsizeMax)
             IN  IF shifted.some
                 THEN LET start_len == len(current_content)
                          rest == SliceFrom(current_content, next_start)
                      IN  [ret |-> shifted,
                           self |-> [self EXCEPT
                               !.current_content = rest,
                               !.removed_count = @ + (start_len - len(rest))]]
                 ELSE [ret |-> NoRange, self |-> self]
        ELSE [ret |-> NoRange, self |-> self]

\* next_standard adding only the length of the query to removed_count,
\* forgetting the text skipped in front of the match
next_standard_miscounted(self) ==
    LET current_content == self.current_content
        possible_range == get_range(self.query, current_content)
    IN  IF possible_range.some /\ is_within(current_content, possible_range)
        THEN LET next_start == possible_range.end
                 shifted == shift_range_in_content(possible_range,
                                Up(self.removed_count), self.full_content, UsizeMax)
             IN  IF shifted.some
                 THEN [ret |-> shifted,
                       self |-> [self EXCEPT
                           !.current_content = SliceFrom(current_content, next_start),
                           !.removed_count = @ + len(self.query)]]
                 ELSE [ret |-> NoRange, self |-> self]
        ELSE [ret |-> NoRange, self |-> self]

\* next_standard dropping the rest of the window when the query is not found
next_standard_consumes_on_none(self) ==
    LET current_content == self.current_content
        possible_range == get_range(self.query, current_content)
    IN  IF possible_range.some /\ is_within(current_content, possible_range)
        THEN LET next_start == possible_range.end
                 shifted == shift_range_in_content(possible_range,
                                Up(self.removed_count), self.full_content, UsizeMax)
             IN  IF shifted.some
                 THEN LET start_len == len(current_content)
                          rest == SliceFrom(current_content, next_start)
                      IN  [ret |-> shifted,
                           self |-> [self EXCEPT
                               !.current_content = rest,
                               !.removed_count = @ + (start_len - len(rest))]]
                 ELSE [ret |-> NoRange, self |-> self]
        ELSE [ret |-> NoRange,
              self |-> [self EXCEPT
                  !.current_content = <<>>,
                  !.removed_count = @ + len(current_content)]]

\* next_standard and next_inverted return the Option they yield together
\* with the iterator as the call leaves it
next_standard(self) ==
    LET current_content == self.current_content
        possible_range == get_range(self.query, current_content)
    IN  IF possible_range.some /\ is_within(current_content, possible_range)
        THEN LET next_start == possible_range.end
                 shifted == shift_range_in_content(possible_range,
                                Up(self.removed_count), self.full_content, UsizeMax)
             IN  IF shifted.some
                 THEN LET start_len == len(current_content)
                          rest == SliceFrom(current_content, next_start)
                      IN  [ret |-> shifted,
                           self |-> [self EXCEPT
                               !.current_content = rest,
                               !.removed_count = @ + (start_len - len(rest))]]
                 ELSE [ret |-> NoRange, self |-> self]
        ELSE [ret |-> NoRange, self |-> self]

\* next_inverted yielding the gap in the window's coordinates, not shifted
\* up by removed_count
next_inverted_unshifted(self) ==
    LET current_content == self.current_content
        length == len(current_content)
        found == get_range(self.query, current_content)
        range == IF found.some THEN found ELSE SomeRange(length, length)
        next_start == Min(range.end, length)
        possible_range == shift_range(SomeRange(0, range.start), Up(0), UsizeMax)
        rest == SliceFrom(current_content, next_start)
    IN  [ret |-> IF len(current_content) > 0 THEN possible_range ELSE NoRange,
         self |-> [self EXCEPT
             !.current_content = rest,
             !.removed_count = @ + (length - len(rest))]]

\* next_inverted taking 0..len, not len..len, as the range of a query that
\* is not found
next_inverted_gap_lost(self) ==
    LET current_content == self.current_content
        length == len(current_content)
        found == get_range(self.query, current_content)
        range == IF found.some THEN found ELSE SomeRange(0, length)
        next_start == Min(range.end, length)
        possible_range == shift_range(SomeRange(0, range.start),
                                      Up(self.removed_count), UsizeMax)
        rest == SliceFrom(current_content, next_start)
    IN  [ret |-> IF len(current_content) > 0 THEN possible_range ELSE NoRange,
         self |-> [self EXCEPT
             !.current_content = rest,
             !.removed_count = @ + (length - len(rest))]]

\* next_inverted yielding a gap only if the gap, not the window, is
\* non-empty
next_inverted_skips_empty_gap(self) ==
    LET current_content == self.current_content
        length == len(current_content)
        found == get_range(self.query, current_content)
        range == IF found.some THEN found ELSE SomeRange(length, length)
        end_index == range.start
        next_start == Min(range.end, length)
        possible_range == shift_range(SomeRange(0, end_index),
                                      Up(self.removed_count), UsizeMax)
        rest == SliceFrom(current_content, next_start)
    IN  [ret |-> IF end_index > 0 THEN possible_range ELSE NoRange,
         self |-> [self EXCEPT
             !.current_content = rest,
             !.removed_count = @ + (length - len(rest))]]

next_inverted(self) ==
    LET current_content == self.current_content
        start_index == 0
        length == len(current_content)
        found == get_range(self.query, current_content)
        range == IF found.some THEN found ELSE SomeRange(length, length)
        end_index == range.start
        next_start == Min(range.end, length)
        possible_range == shift_range(SomeRange(start_index, end_index),
                                      Up(self.removed_count), UsizeMax)
        rest == SliceFrom(current_content, next_start)
    IN  [ret |-> IF len(current_content) > 0 THEN possible_range ELSE NoRange,
         self |-> [self EXCEPT
             !.current_content = rest,
             !.removed_count = @ + (length - len(rest))]]

\* Iterator::next
next(self) == IF self.inverted THEN next_inverted(self) ELSE next_standard(self)

\* A caller's transform closure, Fn(&str) -> String, by name.
Transforms == {"identity", "to_uppercase", "to_title_case", "mark"}

UpperChar(ch) == IF ch = "a" THEN "A" ELSE IF ch = "b" THEN "B" ELSE ch
LowerChar(ch) == IF ch = "A" THEN "a" ELSE IF ch = "B" THEN "b" ELSE ch

to_uppercase(s) == [i \in 1..Len(s) |-> UpperChar(s[i])]
to_lowercase(s) == [i \in 1..Len(s) |-> LowerChar(s[i])]

to_title_case(s) ==
    IF len(s) > 1
    THEN to_uppercase(Slice(s, 0, 1)) \o to_lowercase(SliceFrom(s, 1))
    ELSE IF len(s) = 1 THEN to_uppercase(Slice(s, 0, 1))
    ELSE <<>>

\* calling the closure: "mark" is |it| format!("#{}", it), which maps the
\* empty segment to a non-empty string
Apply(transform, s) ==
    CASE transform = "identity" -> s
      [] transform = "to_uppercase" -> to_uppercase(s)
      [] transform = "to_title_case" -> to_title_case(s)
      [] transform = "mark" -> <<"#">> \o s

\* the closures transform_each and transform_rest of transform: a tagged
\* run (value, start)
transform_each(t_content, transform, range) ==
    <<Apply(transform, Slice(t_content, range.start, range.end)), range.start>>

transform_rest(t_content, range) ==
    <<Slice(t_content, range.start, range.end), range.start>>

\* the merged runs left in the order they were appended in
sort_unstable_by_skipped(subs, I) == {subs}

\* Every order slice::sort_unstable_by may leave the runs at the indices
\* in I in: ascending by start, runs with equal starts in any order.
RECURSIVE sort_unstable_by(_, _)
sort_unstable_by(subs, I) ==
    IF I = {} THEN {<<>>}
    ELSE LET least == CHOOSE i \in I : \A j \in I : subs[i][2] <= subs[j][2]
             ties == {i \in I : subs[i][2] = subs[least][2]}
         IN  UNION {{<<subs[i]>> \o rest : rest \in sort_unstable_by(subs, I \ {i})}
                    : i \in ties}

\* strings.join("")
RECURSIVE join(_)
join(merged) ==
    IF merged = <<>> THEN <<>> ELSE Head(merged)[1] \o join(Tail(merged))

\* --------------------------------------------------------------- state
VARIABLES
    mode,      \* "iterate": two iterators driven by hand; otherwise the
               \* reassembly function that was called
    query,     \* the query argument
    content,   \* the content argument
    transform_query,      \* the closure run on query content
    transform_non_query,  \* the closure run on non-query content
    matches,   \* QueryRangeItr::new(query, content)
    gaps,      \* QueryRangeItr::new_inverted(query, content)
    m_out,     \* what each next() call on matches returned, in order
    g_out,     \* what each next() call on gaps returned, in order
    pc,        \* where the called function is
    pass,      \* which of transform_all's two transform calls is running
    call,      \* arguments of the running transform call
    selects,   \* transform's iterator over the runs to transform
    non_selects,        \* transform's iterator over the runs to copy
    selected_subs,      \* Vec<(String, usize)> collected from selects
    non_selected_subs,  \* Vec<(String, usize)> collected from non_selects
    result,    \* the String returned
    range_arg, \* the range argument of shift_range / shift_range_in_content
    shift_arg, \* their shift argument
    shifted,   \* the Option<Range<u8>> they returned
    within     \* the bool is_within(content, &range_arg) returned

vars == <<mode, query, content, transform_query, transform_non_query,
          matches, gaps, m_out, g_out, pc, pass, call, selects, non_selects,
          selected_subs, non_selected_subs, result,
          range_arg, shift_arg, shifted, within>>

inputs == <<mode, query, content, transform_query, transform_non_query,
            range_arg, shift_arg>>
hand_driven == <<matches, gaps, m_out, g_out>>

\* the frame of a call transform(query, content, transform, invert)
StartTransform(t_query, t_content, transform, invert) ==
    /\ call = [query |-> t_query, content |-> t_content,
               transform |-> transform, invert |-> invert]
    /\ selects = new_base(t_query, t_content, invert)
    /\ non_selects = new_base(t_query, t_content, ~invert)
    /\ selected_subs = <<>>
    /\ non_selected_subs = <<>>

\* no shift function is called
NoShiftCall ==
    /\ range_arg = SomeRange(0, 0)
    /\ shift_arg = Up(0)

InitIterate ==
    /\ mode = "iterate"
    /\ NoShiftCall
    /\ transform_query = "identity"
    /\ transform_non_query = "identity"
    /\ pc = "iterate"
    /\ pass = 1
    /\ StartTransform(query, content, "identity", FALSE)

InitTransformQuery ==
    /\ mode = "transform_query"
    /\ NoShiftCall
    /\ transform_query \in Transforms
    /\ transform_non_query = "identity"
    /\ pc = "selects"
    /\ pass = 1
    /\ StartTransform(query, content, transform_query, FALSE)

InitTransformOther ==
    /\ mode = "transform_other"
    /\ NoShiftCall
    /\ transform_query = "identity"
    /\ transform_non_query \in Transforms
    /\ pc = "selects"
    /\ pass = 1
    /\ StartTransform(query, content, transform_non_query, TRUE)

InitTransformAll ==
    /\ mode = "transform_all"
    /\ NoShiftCall
    /\ transform_query \in Transforms
    /\ transform_non_query \in Transforms
    /\ pc = "selects"
    /\ pass = 1
    /\ StartTransform(query, content, transform_query, FALSE)

\* shift_range(range, shift) and shift_range_in_content(range, shift,
\* content) called with T = u8; of the content only its length is read
ShiftArgs ==
    /\ range_arg \in {SomeRange(s, e) : s \in Offsets, e \in Offsets}
    /\ shift_arg \in {Up(n) : n \in Offsets} \cup {Down(n) : n \in Offsets}
    /\ query = <<>>
    /\ transform_query = "identity"
    /\ transform_non_query = "identity"
    /\ pass = 1
    /\ StartTransform(query, content, "identity", FALSE)

InitShiftRange ==
    /\ mode = "shift_range"
    /\ pc = "shift_range"
    /\ content = <<>>
    /\ ShiftArgs

InitShiftRangeInContent ==
    /\ mode = "shift_range_in_content"
    /\ pc = "shift_range_in_content"
    /\ \A i \in 1..Len(content) : content[i] = "a"
    /\ ShiftArgs

\* is_within(content, &range) called with T = u8; of the content only its
\* length is read
InitIsWithin ==
    /\ mode = "is_within"
    /\ pc = "is_within"
    /\ range_arg \in {SomeRange(s, e) : s \in Offsets, e \in Offsets}
    /\ shift_arg = Up(0)
    /\ \A i \in 1..Len(content) : content[i] = "a"
    /\ query = <<>>
    /\ transform_query = "identity"
    /\ transform_non_query = "identity"
    /\ pass = 1
    /\ StartTransform(query, content, "identity", FALSE)

Init ==
    /\ query \in Queries
    /\ content \in Contents
    /\ matches = new(query, content)
    /\ gaps = new_inverted(query, content)
    /\ m_out = <<>>
    /\ g_out = <<>>
    /\ result = <<>>
    /\ shifted = NoRange
    /\ within = FALSE
    /\ \/ InitIterate
       \/ InitTransformQuery
       \/ InitTransformOther
       \/ InitTransformAll
       \/ InitShiftRange
       \/ InitShiftRangeInContent
       \/ InitIsWithin

\* one next() call on the matches iterator
NextMatches ==
    /\ pc = "iterate"
    /\ Len(m_out) < MaxCalls
    /\ LET r == next(matches)
       IN  /\ matches' = r.self
           /\ m_out' = Append(m_out, r.ret)
    /\ UNCHANGED <<inputs, within, shifted, gaps, g_out, pc, pass, call, selects, non_selects,
                   selected_subs, non_selected_subs, result>>

\* one next() call on the gaps iterator
NextGaps ==
    /\ pc = "iterate"
    /\ Len(g_out) < MaxCalls
    /\ LET r == next(gaps)
       IN  /\ gaps' = r.self
           /\ g_out' = Append(g_out, r.ret)
    /\ UNCHANGED <<inputs, within, shifted, matches, m_out, pc, pass, call, selects, non_selects,
                   selected_subs, non_selected_subs, result>>

\* selects.map(|range| transform_each(range)).collect(), one item at a time
MapSelects ==
    /\ pc = "selects"
    /\ LET r == next(selects)
       IN  /\ selects' = r.self
           /\ IF ~r.ret.some
              THEN /\ pc' = "non_selects"
                   /\ UNCHANGED selected_subs
              ELSE IF Len(selected_subs) >= VecCap
              THEN /\ pc' = "abort"
                   /\ UNCHANGED selected_subs
              ELSE /\ pc' = pc
                   /\ selected_subs' = Append(selected_subs,
                          transform_each(call.content, call.transform, r.ret))
    /\ UNCHANGED <<inputs, within, shifted, hand_driven, pass, call, non_selects,
                   non_selected_subs, result>>

\* non_selects.map(|range| transform_rest(range)).collect(), one item at a time
MapNonSelects ==
    /\ pc = "non_selects"
    /\ LET r == next(non_selects)
       IN  /\ non_selects' = r.self
           /\ IF ~r.ret.some
              THEN /\ pc' = "merge"
                   /\ UNCHANGED non_selected_subs
              ELSE IF Len(non_selected_subs) >= VecCap
              THEN /\ pc' = "abort"
                   /\ UNCHANGED non_selected_subs
              ELSE /\ pc' = pc
                   /\ non_selected_subs' = Append(non_selected_subs,
                          transform_rest(call.content, r.ret))
    /\ UNCHANGED <<inputs, within, shifted, hand_driven, pass, call, selects,
                   selected_subs, result>>

\* the Strings transform may return: append, sort_unstable_by, join
Reassembled ==
    LET merged == selected_subs \o non_selected_subs
    IN  {join(sorted) : sorted \in sort_unstable_by(merged, 1..Len(merged))}

\* transform returns to the caller of transform_query, transform_other, or
\* of transform_all's second call
TransformReturn ==
    /\ pc = "merge"
    /\ ~(mode = "transform_all" /\ pass = 1)
    /\ result' \in Reassembled
    /\ pc' = "done"
    /\ UNCHANGED <<inputs, within, shifted, hand_driven, pass, call, selects, non_selects,
                   selected_subs, non_selected_subs>>

\* transform_all: its first transform call returns transformed_content, the
\* closure is run on the bare query, and the second transform call starts
TransformAllSecond ==
    /\ pc = "merge"
    /\ mode = "transform_all" /\ pass = 1
    /\ \E transformed_content \in Reassembled :
          LET transformed_query == Apply(transform_query, query)
          IN  /\ call' = [query |-> transformed_query,
                          content |-> transformed_content,
                          transform |-> transform_non_query, invert |-> TRUE]
              /\ selects' = new_base(transformed_query, transformed_content, TRUE)
              /\ non_selects' = new_base(transformed_query, transformed_content, FALSE)
    /\ selected_subs' = <<>>
    /\ non_selected_subs' = <<>>
    /\ pass' = 2
    /\ pc' = "selects"
    /\ UNCHANGED <<inputs, within, shifted, hand_driven, result>>

\* shift_range(range_arg, shift_arg)
ShiftRange ==
    /\ pc = "shift_range"
    /\ shifted' = shift_range(range_arg, shift_arg, U8Max)
    /\ pc' = "done"
    /\ UNCHANGED <<inputs, within, hand_driven, pass, call, selects, non_selects,
                   selected_subs, non_selected_subs, result>>

\* shift_range_in_content(range_arg, shift_arg, content)
ShiftRangeInContent ==
    /\ pc = "shift_range_in_content"
    /\ shifted' = shift_range_in_content(range_arg, shift_arg, content, U8Max)
    /\ pc' = "done"
    /\ UNCHANGED <<inputs, within, hand_driven, pass, call, selects, non_selects,
                   selected_subs, non_selected_subs, result>>

\* is_within(content, &range_arg)
IsWithin ==
    /\ pc = "is_within"
    /\ within' = is_within(content, range_arg)
    /\ pc' = "done"
    /\ UNCHANGED <<inputs, shifted, hand_driven, pass, call, selects,
                   non_selects, selected_subs, non_selected_subs, result>>

Next ==
    \/ NextMatches
    \/ NextGaps
    \/ MapSelects
    \/ MapNonSelects
    \/ TransformReturn
    \/ TransformAllSecond
    \/ ShiftRange
    \/ ShiftRangeInContent
    \/ IsWithin

Spec == Init /\ [][Next]_vars

\* ------------------------------------------------- reference definitions
\* Start offsets, in content, of the non-overlapping occurrences of a
\* non-empty query: scanning left to right from offset from, each search
\* resuming immediately after the previous occurrence.
RECURSIVE OccurrencesFrom(_, _, _)
OccurrencesFrom(c, q, from) ==
    LET starts == {i \in from..(Len(c) - Len(q)) : SubSeq(c, i + 1, i + Len(q)) = q}
    IN  IF starts = {} THEN <<>>
        ELSE LET first == CHOOSE i \in starts : \A j \in starts : i <= j
             IN  <<first>> \o OccurrencesFrom(c, q, first + Len(q))

Occurrences(c, q) == OccurrencesFrom(c, q, 0)

Occurs(c, q) == \E i \in 0..(Len(c) - Len(q)) : SubSeq(c, i + 1, i + Len(q)) = q

\* a hand-driven iterator has been driven to exhaustion once a call returned None
Exhausted(out) == \E i \in 1..Len(out) : ~out[i].some

\* the ranges it yielded before its first None
Drained(out) ==
    LET first_none == CHOOSE i \in 1..Len(out) :
                          ~out[i].some /\ \A j \in 1..(i - 1) : out[j].some
    IN  SubSeq(out, 1, first_none - 1)

\* the substring of content at a range
At(c, range) == SubSeq(c, range.start + 1, range.end)

RECURSIVE Concat(_)
Concat(strings) ==
    IF strings = <<>> THEN <<>> ELSE Head(strings) \o Concat(Tail(strings))

\* gap, match, gap, match, ... in text order
RECURSIVE Interleave(_, _)
Interleave(gs, ms) ==
    IF gs = <<>> THEN ms
    ELSE IF ms = <<>> THEN gs
    ELSE <<Head(gs), Head(ms)>> \o Interleave(Tail(gs), Tail(ms))


\* The content with f applied to every occurrence of the non-empty query q
\* and g applied to every gap (before the first occurrence, between two
\* consecutive occurrences, after the last one; zero-length gaps included),
\* in text order.  occ are the occurrences from offset pos on.
RECURSIVE RewriteFrom(_, _, _, _, _, _)
RewriteFrom(c, q, f, g, occ, pos) ==
    IF occ = <<>> THEN Apply(g, SubSeq(c, pos + 1, Len(c)))
    ELSE Apply(g, SubSeq(c, pos + 1, Head(occ)))
         \o Apply(f, SubSeq(c, Head(occ) + 1, Head(occ) + Len(q)))
         \o RewriteFrom(c, q, f, g, Tail(occ), Head(occ) + Len(q))

Rewrite(c, q, f, g) == RewriteFrom(c, q, f, g, Occurrences(c, q), 0)

\* the called function is over: it returned, or the process aborted
Terminated == pc \in {"done", "abort"}

\* ---------------------------------------------------------------- claims

\* C1: a matches-mode iterator over a non-empty query, driven to exhaustion,
\* yields exactly as many ranges as the query has non-overlapping
\* occurrences; the content at each range is the query; each range starts
\* after the previous one starts and not before the previous one ends.
C1_MatchesYieldOccurrences ==
    (mode = "iterate" /\ query # <<>> /\ Exhausted(m_out)) =>
        LET rs == Drained(m_out)
        IN  /\ Len(rs) = Len(Occurrences(content, query))
            /\ \A i \in 1..Len(rs) : At(content, rs[i]) = query
            /\ \A i \in 1..(Len(rs) - 1) :
                   /\ rs[i].start < rs[i + 1].start
                   /\ rs[i + 1].start >= rs[i].end

\* C1 witness: an exhausted matches iterator that yielded two or more ranges
C1_Witness ==
    /\ mode = "iterate" /\ query # <<>> /\ Exhausted(m_out)
    /\ Len(Drained(m_out)) >= 2

\* C2: for a non-empty query, the substrings at the gaps' ranges and at the
\* matches' ranges, interleaved gap, match, gap, match, ... and
\* concatenated, are the content.
C2_InterleaveReconstructs ==
    (mode = "iterate" /\ query # <<>> /\ Exhausted(m_out) /\ Exhausted(g_out)) =>
        LET ms == Drained(m_out)
            gs == Drained(g_out)
            pieces == Interleave(gs, ms)
        IN  Concat([i \in 1..Len(pieces) |-> At(content, pieces[i])]) = content

\* C2 witness: both iterators exhausted, two or more matches, a non-empty
\* gap between them
C2_Witness ==
    /\ mode = "iterate" /\ query # <<>> /\ Exhausted(m_out) /\ Exhausted(g_out)
    /\ Len(Drained(m_out)) >= 2
    /\ Len(Drained(g_out)) >= 2
    /\ Drained(g_out)[2].end > Drained(g_out)[2].start

\* C3 as stated: a gaps-mode iterator over a non-empty query with k
\* occurrences, driven to exhaustion, yields exactly k + 1 ranges.
C3_GapsYieldOneMore ==
    (mode = "iterate" /\ query # <<>> /\ Exhausted(g_out)) =>
        Len(Drained(g_out)) = Len(Occurrences(content, query)) + 1

\* C9 as stated: when the query does not occur in the content, matches mode
\* yields nothing and gaps mode yields exactly the range [0, len(content)).
C9_AbsentQuery ==
    (mode = "iterate" /\ ~Occurs(content, query)) =>
        /\ Exhausted(m_out) => Drained(m_out) = <<>>
        /\ Exhausted(g_out) => Drained(g_out) = <<SomeRange(0, Len(content))>>

\* C9 amended: when the query does not occur in a non-empty content,
\* matches mode yields nothing and gaps mode yields exactly the range
\* [0, len(content)); in an empty content gaps mode yields nothing either.
C9_AbsentQueryNonEmptyContent ==
    (mode = "iterate" /\ ~Occurs(content, query)) =>
        /\ m_out # <<>> => (Exhausted(m_out) /\ Drained(m_out) = <<>>)
        /\ Len(g_out) >= 2 => Exhausted(g_out)
        /\ Exhausted(g_out) =>
               Drained(g_out) = IF content = <<>> THEN <<>>
                                ELSE <<SomeRange(0, Len(content))>>

\* C9 witness: the query is absent from a non-empty content and both
\* iterators are exhausted
C9_Witness ==
    /\ mode = "iterate" /\ ~Occurs(content, query) /\ Len(content) >= 2
    /\ Exhausted(m_out) /\ Exhausted(g_out)

\* C10 as stated: on an empty content the first next() of either iterator
\* returns None, whatever the query.
C10_EmptyContent ==
    (mode = "iterate" /\ content = <<>>) =>
        /\ m_out # <<>> => ~m_out[1].some
        /\ g_out # <<>> => ~g_out[1].some

\* C4: transform_query over a non-empty query returns the content with
\* every occurrence of the query replaced by the transform of it and every
\* other byte copied, in order.
C4_TransformQueryReplaces ==
    (mode = "transform_query" /\ query # <<>>) =>
        /\ pc # "abort"
        /\ pc = "done" =>
               result = Rewrite(content, query, transform_query, "identity")

\* C4 witness: transform_query returned after rewriting two occurrences
\* with a transform that changes them
C4_Witness ==
    /\ mode = "transform_query" /\ query # <<>> /\ pc = "done"
    /\ transform_query = "to_uppercase"
    /\ Len(Occurrences(content, query)) >= 2
    /\ result # content

\* C5 as stated: transform_other over a non-empty query returns the
\* transform of every gap, zero-length gaps included, with the occurrences
\* of the query copied between them, in text order.
C5_TransformOtherRewritesGaps ==
    (mode = "transform_other" /\ query # <<>> /\ pc = "done") =>
        result = Rewrite(content, query, "identity", transform_non_query)

\* C6 as stated: transform_all over a non-empty query returns the
\* concatenation, in text order, of the query transform of every occurrence
\* and the non-query transform of every gap.
C6_TransformAllRewritesBoth ==
    (mode = "transform_all" /\ query # <<>> /\ pc = "done") =>
        result = Rewrite(content, query, transform_query, transform_non_query)

\* C7 as stated: transform_query with the identity transform returns the
\* content, for every query and content.
C7_TransformQueryIdentity ==
    (mode = "transform_query" /\ transform_query = "identity" /\ Terminated) =>
        (pc = "done" /\ result = content)

\* C8 as stated: transform_all with two identity transforms returns the
\* content, for every query and content.
C8_TransformAllIdentity ==
    (mode = "transform_all" /\ transform_query = "identity"
        /\ transform_non_query = "identity" /\ Terminated) =>
        (pc = "done" /\ result = content)

\* C11 as stated: in either mode, for every query and content, next()
\* returns None after at most len(content) + 1 ranges, so once
\* len(content) + 2 calls were made one of them returned None.
C11_FiniteSequence ==
    mode = "iterate" =>
        /\ Len(m_out) >= Len(content) + 2 => Exhausted(m_out)
        /\ Len(g_out) >= Len(content) + 2 => Exhausted(g_out)

\* the last non-overlapping occurrence of the query ends where the content ends
EndsWithOccurrence(c, q) ==
    LET occ == Occurrences(c, q)
    IN  occ # <<>> /\ occ[Len(occ)] + Len(q) = Len(c)

\* C12 as stated: in gaps mode, when the content ends with an occurrence of
\* the non-empty query, the last range yielded before None is the
\* zero-length gap [len(content), len(content)).
C12_TrailingGapYielded ==
    (mode = "iterate" /\ query # <<>> /\ EndsWithOccurrence(content, query)
        /\ Exhausted(g_out)) =>
        LET gs == Drained(g_out)
        IN  /\ gs # <<>>
            /\ gs[Len(gs)] = SomeRange(Len(content), Len(content))

\* C13: in gaps mode with a non-empty query, the gap in front of the i-th
\* occurrence is the i-th range yielded, and it is the zero-length range
\* [p, p) when that occurrence starts at p with no text before it (at
\* offset 0, or right where the previous occurrence ends).
C13_ZeroLengthGapsYielded ==
    (mode = "iterate" /\ query # <<>> /\ Exhausted(g_out)) =>
        LET occ == Occurrences(content, query)
            gs == Drained(g_out)
        IN  \A i \in 1..Len(occ) :
                LET p == occ[i]
                    before == IF i = 1 THEN 0 ELSE occ[i - 1] + Len(query)
                IN  before = p => (Len(gs) >= i /\ gs[i] = SomeRange(p, p))

\* C13 witness: an exhausted gaps iterator over a content that starts with
\* two occurrences in a row yielded [0, 0) and a second zero-length gap
C13_Witness ==
    /\ mode = "iterate" /\ query # <<>> /\ Exhausted(g_out)
    /\ Len(Occurrences(content, query)) >= 2
    /\ Occurrences(content, query)[1] = 0
    /\ Occurrences(content, query)[2] = Len(query)
    /\ Drained(g_out)[1] = SomeRange(0, 0)
    /\ Drained(g_out)[2] = SomeRange(Len(query), Len(query))

\* C14: every range next() yields, in either mode and after any number of
\* calls, is a range of the full content, 0 <= start <= end <= len, in the
\* full content's coordinates: a match covers an occurrence of the query in
\* the content, and a gap starts at 0 or where the query after the
\* previously yielded gap ends.
C14_YieldedRangesInFullContent ==
    mode = "iterate" =>
        /\ \A i \in 1..Len(m_out) : m_out[i].some =>
               /\ 0 <= m_out[i].start /\ m_out[i].start <= m_out[i].end
               /\ m_out[i].end <= Len(content)
               /\ At(content, m_out[i]) = query
        /\ \A i \in 1..Len(g_out) : g_out[i].some =>
               /\ 0 <= g_out[i].start /\ g_out[i].start <= g_out[i].end
               /\ g_out[i].end <= Len(content)
               /\ g_out[i].start =
                      IF i = 1 THEN 0 ELSE g_out[i - 1].end + Len(query)

\* C14 witness: both iterators have yielded a range after an earlier one,
\* from a window that no longer starts at offset 0
C14_Witness ==
    /\ mode = "iterate" /\ query # <<>>
    /\ Len(m_out) >= 2 /\ m_out[2].some /\ m_out[2].start > 0
    /\ Len(g_out) >= 2 /\ g_out[2].some /\ g_out[2].start > 0
    /\ g_out[2].end > g_out[2].start

\* the window of an iterator is the suffix of its full content that starts
\* at removed_count
WindowIsSuffix(itr) ==
    /\ itr.removed_count + Len(itr.current_content) = Len(itr.full_content)
    /\ itr.current_content = SubSeq(itr.full_content, itr.removed_count + 1,
                                    Len(itr.full_content))

AllWindowsAreSuffixes ==
    /\ WindowIsSuffix(matches)
    /\ WindowIsSuffix(gaps)
    /\ WindowIsSuffix(selects)
    /\ WindowIsSuffix(non_selects)

\* from one state of an iterator to the next, removed_count does not
\* decrease and the window does not grow
Shrinks(before, after) ==
    /\ after.removed_count >= before.removed_count
    /\ Len(after.current_content) <= Len(before.current_content)

\* C17: in every reachable state of an iterator (either mode, hand-driven or
\* drained by transform, whatever its calls returned) current_content is
\* the suffix of full_content that starts at removed_count, so
\* removed_count + len(current_content) = len(full_content); and no call
\* decreases removed_count or grows the window.
C17_WindowInvariant ==
    /\ AllWindowsAreSuffixes
    /\ [][/\ AllWindowsAreSuffixes'
          /\ Shrinks(matches, matches')
          /\ Shrinks(gaps, gaps')
          /\ pass' = pass => /\ Shrinks(selects, selects')
                             /\ Shrinks(non_selects, non_selects')]_vars

\* C17 witness: a matches iterator that skipped text in front of a match,
\* yielded it, then returned None with part of the content still in its
\* window
C17_Witness ==
    /\ mode = "iterate"
    /\ Len(m_out) >= 2 /\ m_out[1].some /\ m_out[1].start > 0
    /\ ~m_out[Len(m_out)].some
    /\ matches.removed_count > 1
    /\ matches.current_content # <<>>

\* C18: once a next() call on an iterator has returned None, every later
\* call on it returns None, in either mode.
C18_TerminalAfterNone ==
    mode = "iterate" =>
        /\ \A i \in 1..Len(m_out) : \A j \in i..Len(m_out) :
               ~m_out[i].some => ~m_out[j].some
        /\ \A i \in 1..Len(g_out) : \A j \in i..Len(g_out) :
               ~g_out[i].some => ~g_out[j].some

\* C18 witness: both iterators yielded ranges, returned None, and were
\* called twice more
C18_Witness ==
    /\ mode = "iterate"
    /\ Len(m_out) >= 4 /\ m_out[1].some /\ ~m_out[Len(m_out) - 2].some
    /\ Len(g_out) >= 4 /\ g_out[1].some /\ ~g_out[Len(g_out) - 2].some

\* C19 as stated: for a non-empty query, no range yielded by the matches
\* iterator starts at the offset a range yielded by the gaps iterator over
\* the same query and content starts at.
C19_NoSharedStart ==
    (mode = "iterate" /\ query # <<>>) =>
        \A i \in 1..Len(m_out) : \A j \in 1..Len(g_out) :
            (m_out[i].some /\ g_out[j].some) => m_out[i].start # g_out[j].start

\* a step in which a next() call on the iterator whose history is out
\* returned None
ReturnedNone(out, out_after) ==
    /\ Len(out_after) = Len(out) + 1
    /\ ~out_after[Len(out_after)].some

\* C20: a next() call that returns None leaves the iterator as it was
\* (current_content, removed_count, query, full_content, inverted), in
\* either mode, hand-driven or drained by transform.
C20_NoneDoesNotAdvance ==
    [][/\ ReturnedNone(m_out, m_out') => matches' = matches
       /\ ReturnedNone(g_out, g_out') => gaps' = gaps
       /\ (pc = "selects" /\ pc' = "non_selects") => selects' = selects
       /\ (pc = "non_selects" /\ pc' = "merge") => non_selects' = non_selects]_vars

\* C20 witness: after yielding ranges, the matches iterator returned None
\* with text left in its window and the gaps iterator returned None
C20_Witness ==
    /\ mode = "iterate" /\ query # <<>>
    /\ Len(m_out) >= 2 /\ m_out[1].some /\ ~m_out[Len(m_out)].some
    /\ matches.current_content # <<>>
    /\ Len(g_out) >= 2 /\ g_out[1].some /\ ~g_out[Len(g_out)].some

\* the offsets of the range argument moved by the shift argument, in
\* unbounded integers
MovedStart == IF shift_arg.dir = "Up" THEN range_arg.start + shift_arg.amount
              ELSE range_arg.start - shift_arg.amount
MovedEnd == IF shift_arg.dir = "Up" THEN range_arg.end + shift_arg.amount
            ELSE range_arg.end - shift_arg.amount

\* both moved offsets are values of the offset type (u8)
Representable ==
    /\ 0 <= MovedStart /\ MovedStart <= U8Max
    /\ 0 <= MovedEnd /\ MovedEnd <= U8Max

\* C15: shift_range returns the range with the amount added to (Up) or
\* subtracted from (Down) both start and end when both results are
\* representable in the offset type, and None when either overflows or
\* goes below zero; it never returns a wrapped value.
C15_ShiftRangeChecked ==
    (mode = "shift_range" /\ pc = "done") =>
        shifted = IF Representable THEN SomeRange(MovedStart, MovedEnd)
                  ELSE NoRange

\* C15 witness: shift_range returned None for a shift up whose start is
\* representable and whose end overflows
C15_Witness ==
    /\ mode = "shift_range" /\ pc = "done"
    /\ shift_arg.dir = "Up" /\ shift_arg.amount > 0
    /\ MovedStart <= U8Max /\ MovedEnd > U8Max
    /\ ~shifted.some

C21_IsWithinIffValidRange ==
    (mode = "is_within" /\ pc = "done") =>
        (within <=> /\ 0 <= range_arg.start
                    /\ range_arg.start <= range_arg.end
                    /\ range_arg.end <= Len(content))

====
